---- MODULE Spec2Model ----
(***************************************************************************)
(* A model of spall-rs (src/src/lib.rs): the one-shot initializer, the     *)
(* per-thread buffered recorder and the scope guard, at the level of the   *)
(* bytes that reach the thread buffers and the trace file.                 *)
(*                                                                         *)
(* Record sizes, the 255-byte limits and the header are the code's.  The   *)
(* buffer size is a bound of the model (the code publishes 64*1024): it is *)
(* kept small so that flushes happen within a few operations.              *)
(***************************************************************************)
EXTENDS Integers, Sequences, FiniteSets, TLC

\* ------------------------------------------------------------------ bounds

\* GlobalState.buffer_size as the model publishes it.  The code's value is
\* 64*1024 (lib.rs:61); any value >= 48 + 20 + 255 + 255 leaves the largest
\* reserve() request room after the synthetic flush pair.  At 580 two
\* operations fill the buffer, and a release can be the one that flushes.
BufferSize == 580
\* now() saturates here.
MaxTick == 1
\* Scope acquisitions per thread.
MaxOps == 2
\* Calls of init() per run.
MaxInits == 2
\* I/O and allocation faults the environment injects per run.
MaxFaults == 1
\* Length of the over-long name and of the over-long rendered arguments.
LongNameLen == 260
LongArgsLen == 300

Threads == {"t1", "t2"}

\* ------------------------------------------------------- program constants

SizeofSpallHeader == 32
SizeofBeginEvent == 20
SizeofEndEvent == 17
OffsetofArgsLen == 19
MaxU8 == 255
EventType_Begin == 3
EventType_End == 4
MagicHeader == 195948557      \* 0x0BADF00D
HeaderVersion == 1
StubPid == 42
StubTid == 69
MicrosPerSecond == 1000000
TimerHz == 1000000000         \* timer::timer_frequency, not(aarch64)

\* Option<T>: None, or Some(x).
None == << >>
Some(x) == << x >>
Unwrap(o) == o[1]

\* The content of a path at which there is no file (no byte is negative).
NoFile == << 0 - 1 >>

\* A lazily initialised thread_local! holding an Option<T>.
TlsUninit == [cell |-> "Uninit", val |-> None]
TlsDestroyed == [cell |-> "Destroyed", val |-> None]
Tls(o) == [cell |-> "Init", val |-> o]

Min(a, b) == IF a <= b THEN a ELSE b

\* ---------------------------------------------------------- byte encodings

\* Little-endian u32 / u64 (repr(C, packed), native order on the supported
\* targets).  U64LE is used for values below 2^31 only.
U32LE(n) ==
    << n % 256, (n \div 256) % 256, (n \div 65536) % 256, (n \div 16777216) % 256 >>

U64LE(n) == U32LE(n) \o << 0, 0, 0, 0 >>

\* IEEE-754 binary64 of the quotient p / q (p >= 0, 0 < q), correctly rounded
\* (round to nearest, ties to even), as 8 little-endian bytes.  The 52
\* fraction bits are produced 13 at a time by long division, which the
\* 32-bit integers of the model checker carry for reduced denominators below 2^17.
RECURSIVE Gcd(_, _)
Gcd(a, b) == IF b = 0 THEN a ELSE Gcd(b, a % b)

\* p / q scaled into [1, 2): the exponent e with 2^e <= p / q < 2^(e + 1).
RECURSIVE F64Scale(_, _, _)
F64Scale(p, q, e) ==
    IF p >= 2 * q THEN F64Scale(p, 2 * q, e + 1)
    ELSE IF p < q THEN F64Scale(2 * p, q, e - 1)
    ELSE [p |-> p, q |-> q, e |-> e]

Pow2Table == << 1, 2, 4, 8, 16, 32, 64, 128, 256, 512, 1024, 2048, 4096, 8192 >>
Pow2(n) == Pow2Table[n + 1]

\* Bit i (1 = most significant) of the n-bit number v.
BitOf(v, n, i) == (v \div Pow2(n - i)) % 2

BitsByte(bits, k) ==
    128 * bits[k] + 64 * bits[k + 1] + 32 * bits[k + 2] + 16 * bits[k + 3]
      + 8 * bits[k + 4] + 4 * bits[k + 5] + 2 * bits[k + 6] + bits[k + 7]

\* Long division of r / d (r < d): n chunks of 13 quotient bits, then the
\* remainder.
RECURSIVE F64Chunks(_, _, _)
F64Chunks(r, d, n) ==
    IF n = 0 THEN << r >>
    ELSE << (r * 8192) \div d >> \o F64Chunks((r * 8192) % d, d, n - 1)

\* The increment of round-to-nearest-even: 1 when the remainder is above
\* half of d, or is half of d and the last quotient bit is odd.
F64RoundUp(ch, d) ==
    IF 2 * ch[5] > d \/ (2 * ch[5] = d /\ ch[4] % 2 = 1) THEN 1 ELSE 0

\* ch[1..i] plus cin at chunk i, carried upwards: the carry out, then the
\* chunks.
RECURSIVE F64Carry(_, _, _)
F64Carry(ch, i, cin) ==
    IF i = 0 THEN << cin >>
    ELSE F64Carry(ch, i - 1, (ch[i] + cin) \div 8192) \o << (ch[i] + cin) % 8192 >>

\* Bit i (1 = sign) of the value with unbiased exponent e and rounded
\* fraction k = << carry, k1, k2, k3, k4 >>.
F64Bit(e, k, i) ==
    IF i <= 12 THEN BitOf(e + 1023 + k[1], 12, i)
    ELSE BitOf(k[((i - 13) \div 13) + 2], 13, ((i - 13) % 13) + 1)

F64Bytes(bits) == [j \in 1..8 |-> BitsByte(bits, 8 * (8 - j) + 1)]

F64Pack(e, k) == F64Bytes([i \in 1..64 |-> F64Bit(e, k, i)])

F64Rounded(e, ch, d) == F64Pack(e, F64Carry(ch, 4, F64RoundUp(ch, d)))

F64Scaled(sc) == F64Rounded(sc.e, F64Chunks(sc.p - sc.q, sc.q, 4), sc.q)

F64Div(p, q) ==
    IF p = 0 THEN << 0, 0, 0, 0, 0, 0, 0, 0 >>
    ELSE F64Scaled(F64Scale(p \div Gcd(p, q), q \div Gcd(p, q), 0))

\* `when as f64` (lib.rs:309, 328), tabulated over the values now() takes.
F64OfTick == [v \in 0..(MaxTick + 1) |-> F64Div(v, 1)]

U64AsF64(v) == F64OfTick[v]

\* Order of two non-negative binary64 values given as little-endian bytes:
\* the order of their bit patterns, most significant byte first.
RECURSIVE F64LeqFrom(_, _, _)
F64LeqFrom(a, b, k) ==
    IF k = 0 THEN TRUE
    ELSE IF a[k] < b[k] THEN TRUE
    ELSE IF a[k] > b[k] THEN FALSE
    ELSE F64LeqFrom(a, b, k - 1)

F64Leq(a, b) == F64LeqFrom(a, b, 8)

\* SpallHeader as init() fills it (lib.rs:41-49), packed.
SpallHeader(magic_header, version, timestamp_unit, must_be_0) ==
    U64LE(magic_header) \o U64LE(version) \o timestamp_unit \o U64LE(must_be_0)

timer_frequency == TimerHz

HeaderBytes ==
    SpallHeader(MagicHeader, HeaderVersion, F64Div(MicrosPerSecond, timer_frequency), 0)

\* BeginEvent and EndEvent, packed (lib.rs:120-146).
BeginEvent(ty, category, pid, tid, when, name_len, args_len) ==
    << ty, category >> \o U32LE(pid) \o U32LE(tid) \o when \o << name_len, args_len >>

EndEvent(ty, pid, tid, when) ==
    << ty >> \o U32LE(pid) \o U32LE(tid) \o when

\* ------------------------------------------------------------------ inputs

\* A string of len bytes, the i-th being first + (i - 1) mod 251: no two
\* windows of it at different offsets below 251 agree.
Text(first, len) == [i \in 1..len |-> ((first + i - 2) % 251) + 1]

Str_x == << 120 >>
Str_k == << 107 >>
Str_spall_flush == << 115, 112, 97, 108, 108, 47, 102, 108, 117, 115, 104 >>

Names == { Str_x, Text(1, LongNameLen) }

\* format_args! as the pieces write_fmt hands to write_str: "v={}" with 42,
\* and a rendering longer than 255 bytes that ends inside its second piece.
Args_v42 == << << 118, 61 >>, << 52, 50 >> >>
Args_long == << Text(101, 200), Text(51, LongArgsLen - 200) >>
\* The (name, args) pairs of the calls with arguments: Scenario C of the
\* specification, and the largest record.
ArgCalls == { << Str_k, Args_v42 >>, << Text(1, LongNameLen), Args_long >> }

\* Paths are sequences of characters.
Templates == { << "p" >>, << "t", "$" >> }
WallTimes == { 7, 8 }

\* The budgets of a run.  A run is one of: calls of init() racing and failing,
\* with a scope per thread; one recording thread with faults and a timer that
\* may stall; two recording threads.
Profiles ==
    { [ name |-> "init", inits |-> MaxInits, ops |-> [t \in Threads |-> 1],
        faults |-> MaxFaults, jitter |-> FALSE, templates |-> Templates ],
      [ name |-> "solo", inits |-> 1,
        ops |-> [t \in Threads |-> IF t = "t1" THEN MaxOps ELSE 0],
        faults |-> MaxFaults, jitter |-> TRUE, templates |-> { << "p" >> } ],
      [ name |-> "duo", inits |-> 1, ops |-> [t \in Threads |-> MaxOps],
        faults |-> 0, jitter |-> FALSE, templates |-> { << "p" >> } ] }

\* ----------------------------------------------------------- paths, files

\* u128::to_string of the wall-clock microseconds (lib.rs:28).
Digit(d) == << "0", "1", "2", "3", "4", "5", "6", "7", "8", "9" >>[d + 1]

RECURSIVE to_string(_)
to_string(n) == IF n < 10 THEN << Digit(n) >> ELSE to_string(n \div 10) \o << Digit(n % 10) >>

contains(path, c) == \E i \in 1..Len(path) : path[i] = c

\* str::replace("$", &time): every occurrence (lib.rs:30).
RECURSIVE replace(_, _, _)
replace(path, c, with) ==
    IF path = << >> THEN << >>
    ELSE (IF Head(path) = c THEN with ELSE << Head(path) >>) \o replace(Tail(path), c, with)

\* The (path, new) pair of lib.rs:22-32.
ExpandPath(path, wall) ==
    IF contains(path, "$")
    THEN [path |-> replace(path, "$", to_string(wall)), new |-> TRUE]
    ELSE [path |-> path, new |-> FALSE]

\* std::fs::canonicalize: the absolute form, the working directory being "/".
canonicalize(path) == << "/" >> \o path

AllPaths ==
    { canonicalize(ExpandPath(tp, w).path) : tp \in Templates, w \in WallTimes }

\* A file handle: the file it refers to, whether it was opened in append
\* mode, and its own offset.
OpenHandle(path, append) == [path |-> canonicalize(path), append |-> append, pos |-> 0]

\* One write(2) of the first n bytes of `bytes` through handle h on content c:
\* at the end of the file in append mode, at the handle's offset otherwise.
WriteAt(c, off, bytes) ==
    LET pad == IF off > Len(c) THEN [i \in 1..(off - Len(c)) |-> 0] ELSE << >>
    IN  SubSeq(c, 1, off) \o pad \o bytes \o SubSeq(c, off + Len(bytes) + 1, Len(c))

WriteOffset(h, c) == IF h.append THEN Len(c) ELSE h.pos

FileWrite(c, h, bytes, n) == WriteAt(c, WriteOffset(h, c), SubSeq(bytes, 1, n))

\* Results of a write of len bytes: -1 is Err, otherwise Ok(n).  A result
\* other than Ok(len) is a fault.
WriteErr == 0 - 1
PartialOf(len) == len \div 2
WriteResults(len, faultsLeft) ==
    { len } \cup (IF faultsLeft THEN { WriteErr, PartialOf(len) } ELSE { })
Accepted(res) == IF res = WriteErr THEN 0 ELSE res

\* --------------------------------------------------------- thread recorder

\* Memory: bytes stored at offset off (0-based) of mem.
Store(mem, off, bytes) ==
    SubSeq(mem, 1, off) \o bytes \o SubSeq(mem, off + Len(bytes) + 1, Len(mem))

\* The trace file opened without append(true): writes go to the handle's own
\* offset.
OpenTraceFileNoAppend(trace_path) == [path |-> trace_path, append |-> FALSE, pos |-> 0]

\* ThreadState::init after the context was found: open in append mode,
\* allocate, build the record (lib.rs:195-236).
OpenTraceFile(trace_path) == [path |-> trace_path, append |-> TRUE, pos |-> 0]

NewThreadState(global) ==
    [ pid         |-> StubPid,
      tid         |-> StubTid,
      file        |-> OpenTraceFile(global.trace_path),
      buffer      |-> << >>,
      buffer_size |-> global.buffer_size,
      write_ptr   |-> 0,
      write_rem   |-> global.buffer_size,
      silent      |-> global.silent ]

push_bytes(s, bytes) ==
    [s EXCEPT !.buffer    = Store(s.buffer, s.write_ptr, bytes),
              !.write_ptr = @ + Len(bytes),
              !.write_rem = @ - Len(bytes)]

push_as_bytes(s, v) ==
    [s EXCEPT !.buffer    = Store(s.buffer, s.write_ptr, v),
              !.write_ptr = @ + Len(v),
              !.write_rem = @ - Len(v)]

\* Writer::write_str (lib.rs:276-285) on w = [ptr, rem, mem].
write_str(w, piece) ==
    LET len == Min(Len(piece), w.rem)
    IN  [ptr |-> w.ptr + len, rem |-> w.rem - len,
         mem |-> Store(w.mem, w.ptr, SubSeq(piece, 1, len))]

RECURSIVE write_fmt(_, _)
write_fmt(w, args) ==
    IF args = << >> THEN w ELSE write_fmt(write_str(w, Head(args)), Tail(args))

\* push_args: the new state and the returned length.
push_args(s, max_len, args) ==
    LET writer == write_fmt([ptr |-> s.write_ptr, rem |-> Min(s.write_rem, max_len),
                             mem |-> s.buffer], args)
        len    == writer.ptr - s.write_ptr
    IN  [s   |-> [s EXCEPT !.buffer = writer.mem, !.write_ptr = writer.ptr,
                           !.write_rem = @ - len],
         len |-> len]

push_begin_event(s, when, name_len, args_len) ==
    push_as_bytes(s, BeginEvent(EventType_Begin, 0, s.pid, s.tid, U64AsF64(when),
                                name_len, args_len))

patch_begin_args_len(s, begin, args_len) ==
    [s EXCEPT !.buffer = Store(s.buffer, begin + OffsetofArgsLen, << args_len >>)]

push_end_event(s, when) ==
    push_as_bytes(s, EndEvent(EventType_End, s.pid, s.tid, U64AsF64(when)))

\* `as u8`.
AsU8(n) == n % 256

\* flush with the synthetic scope left open: its End is not emitted.
flush_no_end(s, c, t0, t1, res) ==
    LET len   == s.write_ptr
        slice == SubSeq(s.buffer, 1, len)
        reset == [s EXCEPT !.write_ptr = 0, !.write_rem = s.buffer_size]
        b     == push_begin_event(reset, t0, AsU8(Len(Str_spall_flush)), 0)
        n     == push_bytes(b, Str_spall_flush)
    IN  [ s     |-> [n EXCEPT !.file.pos = WriteOffset(s.file, c) + Accepted(res)],
          c     |-> FileWrite(c, s.file, slice, Accepted(res)),
          slice |-> slice,
          off   |-> WriteOffset(s.file, c),
          diag  |-> res = WriteErr /\ ~s.silent ]

\* flush keeping the buffer as it is when the write fails.
flush_keep_on_error(s, c, t0, t1, res) ==
    LET len   == s.write_ptr
        slice == SubSeq(s.buffer, 1, len)
        reset == IF res = WriteErr THEN s
                 ELSE [s EXCEPT !.write_ptr = 0, !.write_rem = s.buffer_size]
        b     == push_begin_event(reset, t0, AsU8(Len(Str_spall_flush)), 0)
        n     == push_bytes(b, Str_spall_flush)
        e     == push_end_event(n, t1)
    IN  [ s     |-> [e EXCEPT !.file.pos = WriteOffset(s.file, c) + Accepted(res)],
          c     |-> FileWrite(c, s.file, slice, Accepted(res)),
          slice |-> slice,
          off   |-> WriteOffset(s.file, c),
          diag  |-> res = WriteErr /\ ~s.silent ]


\* flush handing write its buffer without the last byte.
flush_short_slice(s, c, t0, t1, res) ==
    LET len   == IF s.write_ptr > 0 THEN s.write_ptr - 1 ELSE 0
        slice == SubSeq(s.buffer, 1, len)
        reset == [s EXCEPT !.write_ptr = 0, !.write_rem = s.buffer_size]
        b     == push_begin_event(reset, t0, AsU8(Len(Str_spall_flush)), 0)
        n     == push_bytes(b, Str_spall_flush)
        e     == push_end_event(n, t1)
    IN  [ s     |-> [e EXCEPT !.file.pos = WriteOffset(s.file, c) + Min(len, Accepted(res))],
          c     |-> FileWrite(c, s.file, slice, Min(len, Accepted(res))),
          slice |-> slice,
          off   |-> WriteOffset(s.file, c),
          diag  |-> res = WriteErr /\ ~s.silent ]

\* flush recording no synthetic scope in the buffer it has reset.
flush_no_pair(s, c, t0, t1, res) ==
    LET len   == s.write_ptr
        slice == SubSeq(s.buffer, 1, len)
        reset == [s EXCEPT !.write_ptr = 0, !.write_rem = s.buffer_size]
    IN  [ s     |-> [reset EXCEPT !.file.pos = WriteOffset(s.file, c) + Accepted(res)],
          c     |-> FileWrite(c, s.file, slice, Accepted(res)),
          slice |-> slice,
          off   |-> WriteOffset(s.file, c),
          diag  |-> res = WriteErr /\ ~s.silent ]

\* flush stamping its Begin with the later reading of now(), its End with the
\* earlier one.
flush_swapped(s, c, t0, t1, res) ==
    LET len   == s.write_ptr
        slice == SubSeq(s.buffer, 1, len)
        reset == [s EXCEPT !.write_ptr = 0, !.write_rem = s.buffer_size]
        b     == push_begin_event(reset, t1, AsU8(Len(Str_spall_flush)), 0)
        n     == push_bytes(b, Str_spall_flush)
        e     == push_end_event(n, t0)
    IN  [ s     |-> [e EXCEPT !.file.pos = WriteOffset(s.file, c) + Accepted(res)],
          c     |-> FileWrite(c, s.file, slice, Accepted(res)),
          slice |-> slice,
          off   |-> WriteOffset(s.file, c),
          diag  |-> res = WriteErr /\ ~s.silent ]

\* flush (lib.rs:333-357) on recorder s and content c of its file, with the
\* two readings of now() and the result of file.write given: the new
\* recorder, the new content, the slice handed to write, where the accepted
\* bytes went, and whether a diagnostic was printed.
flush(s, c, t0, t1, res) ==
    LET len   == s.write_ptr
        slice == SubSeq(s.buffer, 1, len)
        reset == [s EXCEPT !.write_ptr = 0, !.write_rem = s.buffer_size]
        b     == push_begin_event(reset, t0, AsU8(Len(Str_spall_flush)), 0)
        n     == push_bytes(b, Str_spall_flush)
        e     == push_end_event(n, t1)
    IN  [ s     |-> [e EXCEPT !.file.pos = WriteOffset(s.file, c) + Accepted(res)],
          c     |-> FileWrite(c, s.file, slice, Accepted(res)),
          slice |-> slice,
          off   |-> WriteOffset(s.file, c),
          diag  |-> res = WriteErr /\ ~s.silent ]

\* A drop that releases the recorder without flushing.
ThreadState_drop_no_flush(s, c, t0, t1, res) ==
    [ s |-> s, c |-> c, slice |-> << >>, off |-> Len(c), diag |-> FALSE ]

\* Drop for ThreadState (lib.rs:360-364).
ThreadState_drop(s, c, t0, t1, res) == flush(s, c, t0, t1, res)

\* A reserve() that never flushes.
MustFlushNever(s, size) == FALSE

\* reserve(size) flushes exactly when this holds (lib.rs:241).
MustFlush(s, size) == size > s.write_rem

\* reserve (lib.rs:240-245) on recorder s, `flushed` being what flush() makes
\* of s: the recorder when it returns.
reserve(s, size, flushed) == IF MustFlush(s, size) THEN flushed ELSE s

\* trace_scope_impl's closure pushing the whole name after a clamped name_len.
ScopeBodyWholeName(s, name, when) ==
    LET name_len == Min(Len(name), MaxU8)
        b        == push_begin_event(s, when, AsU8(name_len), 0)
    IN  push_bytes(b, name)

\* trace_scope_args_impl reserving no room for the arguments.
ScopeArgsReserveNoArgs(name) == SizeofBeginEvent + Min(Len(name), MaxU8)

\* The closures of trace_scope_impl, trace_scope_args_impl and
\* TraceScope::drop, applied to the recorder reserve() left.
ScopeBody(s, name, when) ==
    LET name_len == Min(Len(name), MaxU8)
        b        == push_begin_event(s, when, AsU8(name_len), 0)
    IN  push_bytes(b, SubSeq(name, 1, name_len))

\* A reservation that forgets the name.
ScopeReserveHeaderOnly(name) == SizeofBeginEvent

ScopeReserve(name) == SizeofBeginEvent + Min(Len(name), MaxU8)

ScopeArgsBody(s, name, args, when) ==
    LET name_len == Min(Len(name), MaxU8)
        begin    == s.write_ptr
        b        == push_begin_event(s, when, AsU8(name_len), 0)
        n        == push_bytes(b, SubSeq(name, 1, name_len))
        a        == push_args(n, MaxU8, args)
    IN  patch_begin_args_len(a.s, begin, AsU8(a.len))

ScopeArgsReserve(name) == SizeofBeginEvent + Min(Len(name), MaxU8) + MaxU8

DropBody(s, when) == push_end_event(s, when)

DropReserve == SizeofEndEvent

\* ------------------------------------------------------------------- state

VARIABLES
    GLOBAL_STATE,   \* None, or Some([trace_path, buffer_size, silent])
    lock,           \* the RwLock of GLOBAL_STATE: "free", or the thread writing
    fs,             \* canonical path -> content of the file, or NoFile
    pc,             \* per thread: "idle", or its position inside init()
    call,           \* per thread: the locals of its init() call
    THIS,           \* per thread: the thread-local Option<ThreadState>
    guards,         \* per thread: TraceScope values alive
    alive,          \* per thread: the thread has not ended
    clock,          \* per thread: the last value now() returned to it
    stderr,         \* the diagnostics printed
    initLog,        \* history: the init() calls that returned, in order
    handed,         \* history, per thread: the bytes it handed to file.write
    segs,           \* history: the writes of recorders, [owner, path, off, len,
                    \*   asked, res]: where the accepted bytes went, how many
                    \*   were handed to write, and what write returned
    lossy,          \* history, per thread: a write of it was not accepted in full
    calls,          \* history, per thread: the scopes it acquired on a recorder
    faults,         \* faults injected so far
    ops,            \* per thread: scope acquisitions so far
    inits,          \* init() calls started so far
    profile,        \* the budgets of this run
    allocated,      \* the threads whose recorder buffer is allocated
    opened          \* the threads whose recorder file handle is open

vars == << GLOBAL_STATE, lock, fs, pc, call, THIS, guards, alive, clock, stderr,
           initLog, handed, segs, lossy, calls, faults, ops, inits, profile,
           allocated, opened >>

NoCall == [path |-> << >>, trace_path |-> << >>, io |-> "ok"]

Init ==
    /\ GLOBAL_STATE = None
    /\ lock = "free"
    /\ fs = [p \in AllPaths |-> NoFile]
    /\ pc = [t \in Threads |-> "idle"]
    /\ call = [t \in Threads |-> NoCall]
    /\ THIS = [t \in Threads |-> TlsUninit]
    /\ guards = [t \in Threads |-> 0]
    /\ alive = [t \in Threads |-> TRUE]
    /\ clock = [t \in Threads |-> 0]
    /\ stderr = << >>
    /\ initLog = << >>
    /\ handed = [t \in Threads |-> << >>]
    /\ segs = << >>
    /\ lossy = [t \in Threads |-> FALSE]
    /\ calls = [t \in Threads |-> << >>]
    /\ faults = 0
    /\ ops = [t \in Threads |-> 0]
    /\ inits = 0
    /\ profile \in Profiles
    /\ allocated = { }
    /\ opened = { }

\* now(): non-decreasing on a thread; the values a call may return after
\* `last`.
Later(last) ==
    IF profile.jitter THEN { last, Min(last + 1, MaxTick) } ELSE { Min(last + 1, MaxTick) }

FaultsLeft(used) == used < profile.faults

IsLive(tls) == tls.cell = "Init" /\ tls.val # None

\* -------------------------------------------------------------------- init

\* A lock that excludes nobody.
WriteLockFreeAlways(l) == TRUE

\* GLOBAL_STATE.write() returns once nobody holds the lock (lib.rs:13).
WriteLockFree(l) == l = "free"

is_some(state) == state # None

\* init() without its test: every call opens the file and publishes.
AlreadyInitializedNever(state) == FALSE

\* The test of lib.rs:14.
AlreadyInitialized(state) == is_some(state)

InitIO == { "ok", "open_err", "write_err", "write_short", "canon_err" }

\* init() going on when canonicalize fails.
InitFailsNoCanon(io, exists) == io \in { "open_err", "write_err" } \/ exists

\* The three `?` of init (lib.rs:39, 54, 56): the call returns Err.  `exists`
\* is create_new finding the file in place.
InitFails(io, exists) == io \in { "open_err", "write_err", "canon_err" } \/ exists

\* What the file holds when init leaves it (lib.rs:34-54): nothing written
\* when open fails, truncated when the write fails, else the accepted bytes.
InitFileContent(old, io) ==
    IF io = "open_err" THEN old
    ELSE IF io = "write_err" THEN << >>
    ELSE FileWrite(<< >>, [path |-> << >>, append |-> FALSE, pos |-> 0], HeaderBytes,
                   IF io = "write_short" THEN PartialOf(SizeofSpallHeader)
                   ELSE SizeofSpallHeader)

InitReturn(t, ret) ==
    /\ initLog' = Append(initLog, [ret |-> ret, io |-> call'[t].io, path |-> call[t].path])
    /\ lock' = "free"
    /\ pc' = [pc EXCEPT ![t] = "idle"]

\* lib.rs:9-13: the call starts and takes the write lock.
InitLock(t, path) ==
    /\ alive[t] /\ pc[t] = "idle" /\ inits < profile.inits
    /\ WriteLockFree(lock)
    /\ lock' = t
    /\ pc' = [pc EXCEPT ![t] = "init14"]
    /\ call' = [call EXCEPT ![t] = [NoCall EXCEPT !.path = path]]
    /\ inits' = inits + 1
    /\ UNCHANGED << GLOBAL_STATE, fs, THIS, guards, alive, clock, stderr, initLog,
                    handed, segs, lossy, calls, faults, ops, profile, allocated,
                    opened >>

\* lib.rs:14-57: the is_some test, then open, write of the header and
\* canonicalize, each of which may fail.
InitBody(t) ==
    /\ pc[t] = "init14"
    /\ IF AlreadyInitialized(GLOBAL_STATE)
       THEN /\ call' = call
            /\ InitReturn(t, "false")
            /\ UNCHANGED << fs, faults >>
       ELSE \E wall \in WallTimes, io \in InitIO :
               LET ex     == ExpandPath(call[t].path, wall)
                   key    == canonicalize(ex.path)
                   exists == ex.new /\ fs[key] # NoFile
               IN  /\ io # "ok" => FaultsLeft(faults)
                   /\ exists => io = "ok"
                   /\ faults' = IF io = "ok" THEN faults ELSE faults + 1
                   /\ call' = [call EXCEPT ![t].io = io, ![t].trace_path = key]
                   /\ fs' = IF exists THEN fs
                            ELSE [fs EXCEPT ![key] = InitFileContent(fs[key], io)]
                   /\ IF InitFails(io, exists)
                      THEN InitReturn(t, "err")
                      ELSE /\ pc' = [pc EXCEPT ![t] = "init59"]
                           /\ UNCHANGED << lock, initLog >>
    /\ UNCHANGED << GLOBAL_STATE, THIS, guards, alive, clock, stderr, handed, segs,
                    lossy, calls, ops, inits, profile, allocated, opened >>

\* lib.rs:59-65: publish and return Ok(true).
InitPublish(t) ==
    /\ pc[t] = "init59"
    /\ GLOBAL_STATE' = Some([trace_path |-> call[t].trace_path,
                             buffer_size |-> BufferSize, silent |-> FALSE])
    /\ call' = call
    /\ InitReturn(t, "true")
    /\ UNCHANGED << fs, THIS, guards, alive, clock, stderr, handed, segs, lossy,
                    calls, faults, ops, inits, profile, allocated, opened >>

\* ------------------------------------------------------------ scope guard

\* ThreadState::with on its first use by a thread runs ThreadState::init
\* (lib.rs:180, 191-237): the outcomes, as [this, diag, fault].  Afterwards
\* it finds what the first use left.
InitOutcomes(state, faultsLeft) ==
    IF ~is_some(state)
    THEN { [this |-> None, diag |-> << >>, fault |-> 0] }
    ELSE LET global == Unwrap(state)
         IN  { [this |-> Some(NewThreadState(global)), diag |-> << >>, fault |-> 0] }
             \cup (IF faultsLeft
                   THEN { [this |-> None, fault |-> 1,
                           diag |-> IF global.silent THEN << >> ELSE << "open failed" >>],
                          [this |-> None, fault |-> 1,
                           diag |-> IF global.silent THEN << >> ELSE << "alloc failed" >>] }
                   ELSE { })

\* ThreadState::with running ThreadState::init again on a failed recorder.
WithOutcomesRetry(t) ==
    IF THIS[t].cell = "Uninit" \/ THIS[t].val = None
    THEN InitOutcomes(GLOBAL_STATE, FaultsLeft(faults))
    ELSE { [this |-> THIS[t].val, diag |-> << >>, fault |-> 0] }

WithOutcomes(t) ==
    IF THIS[t].cell = "Uninit"
    THEN InitOutcomes(GLOBAL_STATE, FaultsLeft(faults))
    ELSE { [this |-> THIS[t].val, diag |-> << >>, fault |-> 0] }

\* GLOBAL_STATE.read() in ThreadState::init waits for a writer to leave.
CanAccess(t) == THIS[t].cell = "Uninit" => lock = "free"

\* What a successful ThreadState::init of thread t acquires (lib.rs:195-214):
\* a file handle and a buffer, both its own.
Acquired(t) == IF THIS[t].cell = "Uninit" THEN { t } ELSE { }

\* f(this) of ThreadState::with for a closure that reserves `size` bytes and
\* then runs Body on the recorder with a fresh reading of now(): nothing on a
\* failed recorder; else the flush reserve() may make, then the body.
Emit(t, w, size, Body(_, _), input) ==
    IF w.this = None
    THEN /\ THIS' = [THIS EXCEPT ![t] = Tls(None)]
         /\ stderr' = stderr \o w.diag
         /\ faults' = faults + w.fault
         /\ UNCHANGED << fs, clock, handed, segs, lossy, calls, allocated, opened >>
    ELSE LET s == Unwrap(w.this)
             c == fs[s.file.path]
         IN  /\ calls' = [calls EXCEPT ![t] = @ \o input]
             /\ allocated' = allocated \cup Acquired(t)
             /\ opened' = opened \cup Acquired(t)
             /\ IF MustFlush(s, size)
                THEN \E t0 \in Later(clock[t]),
                        res \in WriteResults(s.write_ptr, FaultsLeft(faults + w.fault)) :
                       \E t1 \in Later(t0) : \E tn \in Later(t1) :
                          LET f == flush(s, c, t0, t1, res)
                          IN  /\ THIS' = [THIS EXCEPT ![t] = Tls(Some(Body(f.s, tn)))]
                              /\ fs' = [fs EXCEPT ![s.file.path] = f.c]
                              /\ clock' = [clock EXCEPT ![t] = tn]
                              /\ stderr' = stderr \o w.diag
                                     \o (IF f.diag THEN << "write failed" >> ELSE << >>)
                              /\ handed' = [handed EXCEPT ![t] = @ \o f.slice]
                              /\ segs' = Append(segs, [owner |-> t, path |-> s.file.path,
                                                       off |-> f.off, len |-> Accepted(res),
                                                       asked |-> Len(f.slice), res |-> res])
                              /\ lossy' = [lossy EXCEPT ![t] = @ \/ res # s.write_ptr]
                              /\ faults' = faults + w.fault
                                             + (IF res # s.write_ptr THEN 1 ELSE 0)
                ELSE \E tn \in Later(clock[t]) :
                       /\ THIS' = [THIS EXCEPT ![t] = Tls(Some(Body(s, tn)))]
                       /\ clock' = [clock EXCEPT ![t] = tn]
                       /\ stderr' = stderr \o w.diag
                       /\ faults' = faults + w.fault
                       /\ UNCHANGED << fs, handed, segs, lossy >>

\* trace_scope!(name): trace_scope_impl (lib.rs:381-390).
TraceScopeAction(t, name) ==
    /\ alive[t] /\ pc[t] = "idle" /\ ops[t] < profile.ops[t]
    /\ CanAccess(t)
    /\ \E w \in WithOutcomes(t) :
          Emit(t, w, ScopeReserve(name), LAMBDA r, tw : ScopeBody(r, name, tw),
               << [name |-> name, args |-> << >>] >>)
    /\ guards' = [guards EXCEPT ![t] = @ + 1]
    /\ ops' = [ops EXCEPT ![t] = @ + 1]
    /\ UNCHANGED << GLOBAL_STATE, lock, pc, call, alive, initLog, inits, profile >>

\* trace_scope!(name, args..): trace_scope_args_impl (lib.rs:393-405).
TraceScopeArgsAction(t, name, args) ==
    /\ alive[t] /\ pc[t] = "idle" /\ ops[t] < profile.ops[t]
    /\ CanAccess(t)
    /\ \E w \in WithOutcomes(t) :
          Emit(t, w, ScopeArgsReserve(name),
               LAMBDA r, tw : ScopeArgsBody(r, name, args, tw),
               << [name |-> name, args |-> args] >>)
    /\ guards' = [guards EXCEPT ![t] = @ + 1]
    /\ ops' = [ops EXCEPT ![t] = @ + 1]
    /\ UNCHANGED << GLOBAL_STATE, lock, pc, call, alive, initLog, inits, profile >>

\* The guard goes out of scope: TraceScope::drop (lib.rs:370-378).
DropScope(t) ==
    /\ alive[t] /\ pc[t] = "idle" /\ guards[t] > 0
    /\ CanAccess(t)
    /\ \E w \in WithOutcomes(t) :
          Emit(t, w, DropReserve, LAMBDA r, tw : DropBody(r, tw), << >>)
    /\ guards' = [guards EXCEPT ![t] = @ - 1]
    /\ UNCHANGED << GLOBAL_STATE, lock, pc, call, alive, initLog, ops, inits, profile >>

\* What goes with the fields of the ThreadState of thread t once its drop
\* has returned (lib.rs:165-174): `file: File` closes its handle; `buffer:
\* *mut u8` is a raw pointer, which frees nothing, and no code deallocates it.
Closed(t) == { t }
Freed(t) == { }

\* The thread ends, its guards released: the thread-local is destroyed and a
\* recorder in it dropped, which flushes (lib.rs:360-364).
ThreadExit(t) ==
    /\ alive[t] /\ pc[t] = "idle" /\ guards[t] = 0
    /\ alive' = [alive EXCEPT ![t] = FALSE]
    /\ IF IsLive(THIS[t])
       THEN LET s == Unwrap(THIS[t].val)
                c == fs[s.file.path]
            IN  \E t0 \in Later(clock[t]),
                   res \in WriteResults(s.write_ptr, FaultsLeft(faults)) :
                   \E t1 \in Later(t0) :
                      LET f == ThreadState_drop(s, c, t0, t1, res)
                      IN  /\ THIS' = [THIS EXCEPT ![t] = TlsDestroyed]
                          /\ fs' = [fs EXCEPT ![s.file.path] = f.c]
                          /\ clock' = [clock EXCEPT ![t] = t1]
                          /\ stderr' = stderr
                                         \o (IF f.diag THEN << "write failed" >> ELSE << >>)
                          /\ handed' = [handed EXCEPT ![t] = @ \o f.slice]
                          /\ segs' = Append(segs, [owner |-> t, path |-> s.file.path,
                                                   off |-> f.off, len |-> Accepted(res),
                                                   asked |-> Len(f.slice), res |-> res])
                          /\ lossy' = [lossy EXCEPT ![t] = @ \/ res # s.write_ptr]
                          /\ faults' = faults + (IF res # s.write_ptr THEN 1 ELSE 0)
                          /\ opened' = opened \ Closed(t)
                          /\ allocated' = allocated \ Freed(t)
       ELSE UNCHANGED << THIS, fs, clock, stderr, handed, segs, lossy, faults,
                         allocated, opened >>
    /\ UNCHANGED << GLOBAL_STATE, lock, pc, call, guards, initLog, calls, ops, inits,
                    profile >>

Next ==
    \/ \E t \in Threads, path \in profile.templates : InitLock(t, path)
    \/ \E t \in Threads : InitBody(t)
    \/ \E t \in Threads : InitPublish(t)
    \/ \E t \in Threads, name \in Names : TraceScopeAction(t, name)
    \/ \E t \in Threads, na \in ArgCalls : TraceScopeArgsAction(t, na[1], na[2])
    \/ \E t \in Threads : DropScope(t)
    \/ \E t \in Threads : ThreadExit(t)

Spec == Init /\ [][Next]_vars

\* ------------------------------------------------------- reading a stream

\* The record at offset i (0-based) of the byte stream b, as a reader of the
\* format decodes it (BeginEvent / EndEvent layouts, lib.rs:120-146): ty = 0
\* when no complete Begin or End record starts there.
Field(b, i, from, len) == SubSeq(b, i + from + 1, i + from + len)

NoRecord(i) ==
    [ty |-> 0, off |-> i, size |-> 0, pid |-> << >>, tid |-> << >>, when |-> << >>,
     name |-> << >>, args |-> << >>]

RecordAt(b, i) ==
    IF b[i + 1] = EventType_Begin /\ i + SizeofBeginEvent <= Len(b)
    THEN LET name_len == b[i + OffsetofArgsLen]
             args_len == b[i + OffsetofArgsLen + 1]
         IN  IF i + SizeofBeginEvent + name_len + args_len <= Len(b)
             THEN [ty |-> EventType_Begin, off |-> i,
                   size |-> SizeofBeginEvent + name_len + args_len,
                   pid |-> Field(b, i, 2, 4), tid |-> Field(b, i, 6, 4),
                   when |-> Field(b, i, 10, 8),
                   name |-> Field(b, i, SizeofBeginEvent, name_len),
                   args |-> Field(b, i, SizeofBeginEvent + name_len, args_len)]
             ELSE NoRecord(i)
    ELSE IF b[i + 1] = EventType_End /\ i + SizeofEndEvent <= Len(b)
    THEN [ty |-> EventType_End, off |-> i, size |-> SizeofEndEvent,
          pid |-> Field(b, i, 1, 4), tid |-> Field(b, i, 5, 4),
          when |-> Field(b, i, 9, 8), name |-> << >>, args |-> << >>]
    ELSE NoRecord(i)

\* The records of b from offset i on; an undecodable rest is one ty = 0 entry.
RECURSIVE ParseFrom(_, _)
ParseFrom(b, i) ==
    IF i >= Len(b) THEN << >>
    ELSE IF RecordAt(b, i).ty = 0 THEN << NoRecord(i) >>
    ELSE << RecordAt(b, i) >> \o ParseFrom(b, i + RecordAt(b, i).size)

IsBegin(e) == e.ty = EventType_Begin
IsEnd(e) == e.ty = EventType_End

\* Open scopes after the first k records of ev.
Depth(ev, k) ==
    Cardinality({ i \in 1..k : IsBegin(ev[i]) }) - Cardinality({ i \in 1..k : IsEnd(ev[i]) })

\* The Begin that the End at index j closes: the last one before it at the
\* nesting level the End returns to (0 when there is none).
MatchOf(ev, j) ==
    LET cands == { i \in 1..(j - 1) : IsBegin(ev[i]) /\ Depth(ev, i - 1) = Depth(ev, j) }
    IN  IF cands = { } THEN 0 ELSE CHOOSE i \in cands : \A k \in cands : k <= i

\* Everything the thread has emitted: what it handed to write, then what is
\* in its buffer.
UsedBuffer(t) ==
    IF IsLive(THIS[t])
    THEN SubSeq(Unwrap(THIS[t].val).buffer, 1, Unwrap(THIS[t].val).write_ptr)
    ELSE << >>

Emitted(t) == handed[t] \o UsedBuffer(t)

Events(t) == ParseFrom(Emitted(t), 0)

\* ------------------------------------------------------------------ claims

PidTid(e) == << e.pid, e.tid >>

Decodable(ev) == \A i \in 1..Len(ev) : ev[i].ty # 0

\* ev is properly nested: no prefix closes more scopes than it opened, and
\* every End closes a Begin of its own pid and tid.
ProperlyNested(ev) ==
    /\ \A k \in 1..Len(ev) : Depth(ev, k) >= 0
    /\ \A j \in 1..Len(ev) :
          IsEnd(ev[j]) => /\ MatchOf(ev, j) # 0
                          /\ PidTid(ev[MatchOf(ev, j)]) = PidTid(ev[j])

\* ev is balanced: every Begin has its End later on.
Balanced(ev) ==
    /\ Depth(ev, Len(ev)) = 0
    /\ \A i \in 1..Len(ev) :
          IsBegin(ev[i]) => \E j \in (i + 1)..Len(ev) : IsEnd(ev[j]) /\ MatchOf(ev, j) = i

\* C1: the Begin and End events a thread emits, the synthetic pairs of its
\* flushes included, are properly nested, and balanced once the thread holds
\* no guard.
C1_Nested ==
    \A t \in Threads :
       LET ev == Events(t)
       IN  /\ Decodable(ev)
           /\ ProperlyNested(ev)
           /\ guards[t] = 0 => Balanced(ev)

\* A thread that nested two scopes, flushed in between and released both.
C1_Witness ==
    \E t \in Threads :
       /\ IsLive(THIS[t]) /\ guards[t] = 0 /\ Len(calls[t]) >= 2
       /\ handed[t] # << >>
       /\ \E k \in 1..Len(Events(t)) : Depth(Events(t), k) >= 2

Last(q) == q[Len(q)]

Succeeded == \E i \in 1..Len(initLog) : initLog[i].ret = "true"

\* C2: once a call of init has returned true, every step of a later call,
\* whatever its path, leaves the files and the published context as they are
\* and the call returns false; a first call whose I/O succeeds returns true.
C2_SecondInitStep ==
    /\ \A t \in Threads :
          (pc'[t] # pc[t] /\ Succeeded) =>
              /\ fs' = fs
              /\ GLOBAL_STATE' = GLOBAL_STATE
              /\ initLog' # initLog => Last(initLog').ret = "false"
    /\ (initLog = << >> /\ initLog' # initLog /\ Last(initLog').io = "ok")
          => Last(initLog').ret = "true"

C2_SecondInitIsNoop == [][C2_SecondInitStep]_vars

\* init returned true, then false for another path, and made no file for it.
C2_Witness ==
    /\ Len(initLog) = 2
    /\ initLog[1].ret = "true" /\ initLog[2].ret = "false"
    /\ initLog[2].path # initLog[1].path
    /\ Cardinality({ p \in AllPaths : fs[p] # NoFile }) = 1

\* C3: at most one call of init returns true, and a published context is
\* never replaced or changed.
C3_PublishStep ==
    /\ is_some(GLOBAL_STATE) => GLOBAL_STATE' = GLOBAL_STATE
    /\ Cardinality({ i \in 1..Len(initLog') : initLog'[i].ret = "true" }) <= 1

C3_OneContext == [][C3_PublishStep]_vars

\* One thread's call has published and returned; another thread is inside
\* init, holding the lock, and a third party's recorder may already be live.
C3_Witness ==
    /\ is_some(GLOBAL_STATE)
    /\ Succeeded
    /\ \E t \in Threads : pc[t] = "init14" /\ lock = t

\* C4: a call of init in which open, the write of the header or canonicalize
\* fails returns the error, publishes nothing and releases the lock; no
\* recorder is live while no context is published.
InitIOFailed(io) == io \in { "open_err", "write_err", "canon_err" }

C4_ErrStep ==
    (initLog' # initLog /\ Last(initLog').ret = "err") =>
        /\ GLOBAL_STATE' = None
        /\ lock' = "free"

C4_ErrState ==
    /\ \A i \in 1..Len(initLog) : InitIOFailed(initLog[i].io) => initLog[i].ret = "err"
    /\ \A t \in Threads : pc[t] = "init59" => ~InitIOFailed(call[t].io)
    /\ \A t \in Threads : IsLive(THIS[t]) => is_some(GLOBAL_STATE)

C4_FailedInitPublishesNothing == []C4_ErrState /\ [][C4_ErrStep]_vars

\* init failed, a thread then tried to record and found no context, and a
\* later call of init succeeded.
C4_Witness ==
    /\ Len(initLog) = 2
    /\ initLog[1].ret = "err" /\ InitIOFailed(initLog[1].io)
    /\ initLog[2].ret = "true"
    /\ \E t \in Threads : THIS[t] = Tls(None)

\* The file of the published context.
TraceFile == fs[Unwrap(GLOBAL_STATE).trace_path]

HeaderWritten ==
    /\ Len(TraceFile) >= SizeofSpallHeader
    /\ SubSeq(TraceFile, 1, SizeofSpallHeader) = HeaderBytes

\* C5: once init has succeeded the first 32 bytes of the trace file are the
\* header, and every byte a recorder writes lands at offset 32 or later.
C5_HeaderFirst ==
    is_some(GLOBAL_STATE) =>
        /\ HeaderWritten
        /\ \A i \in 1..Len(segs) : segs[i].len > 0 => segs[i].off >= SizeofSpallHeader

\* The same when the write of the header accepted all 32 bytes.
C5_HeaderFirstAfterFullWrite ==
    (is_some(GLOBAL_STATE) /\ \E i \in 1..Len(initLog) :
                                 initLog[i].ret = "true" /\ initLog[i].io = "ok")
        => C5_HeaderFirst

IsPrefix(a, b) == Len(a) <= Len(b) /\ SubSeq(b, 1, Len(a)) = a

\* What the file now holds where the write g put its bytes.
FileBytes(g) == SubSeq(fs[g.path], g.off + 1, g.off + g.len)

\* The file bytes of the first n writes that are t's, concatenated.
RECURSIVE Written(_, _)
Written(t, n) ==
    IF n = 0 THEN << >>
    ELSE Written(t, n - 1) \o (IF segs[n].owner = t THEN FileBytes(segs[n]) ELSE << >>)

\* C6: as long as every write of a thread was accepted in full, its writes
\* lie in the file in the order it made them, and what the file holds there,
\* concatenated, is a prefix of what the thread emitted.
C6_PerThreadOrder ==
    \A t \in Threads :
       ~lossy[t] =>
          /\ \A i, j \in 1..Len(segs) :
                (i < j /\ segs[i].owner = t /\ segs[j].owner = t)
                   => segs[i].off + segs[i].len <= segs[j].off
          /\ IsPrefix(Written(t, Len(segs)), Emitted(t))

\* Two threads have written alternately, three non-empty segments in all.
C6_Witness ==
    /\ \A t \in Threads : ~lossy[t]
    /\ \E i \in 1..Len(segs) :
          /\ i + 2 <= Len(segs)
          /\ segs[i].owner = segs[i + 2].owner /\ segs[i].owner # segs[i + 1].owner
          /\ \A k \in i..(i + 2) : segs[k].len > 0

\* The events of the trace file, and the thread whose write put a file offset.
FileEvents == ParseFrom(TraceFile, SizeofSpallHeader)

OwnerAt(off) ==
    LET w == { i \in 1..Len(segs) : segs[i].off <= off /\ off < segs[i].off + segs[i].len }
    IN  IF w = { } THEN "nobody" ELSE segs[CHOOSE i \in w : TRUE].owner

\* C7: in a file whose header and writes are complete, the events of every
\* (pid, tid) pair are properly nested: no prefix has more Ends than Begins,
\* and every End closes a Begin of its own pair written by its own thread.
C7_FileNestedPerPidTid ==
    (is_some(GLOBAL_STATE) /\ HeaderWritten /\ \A t \in Threads : ~lossy[t]) =>
        LET ev == FileEvents
        IN  /\ Decodable(ev)
            /\ \A pt \in { PidTid(ev[i]) : i \in 1..Len(ev) } :
                  LET sub == SelectSeq(ev, LAMBDA e : PidTid(e) = pt)
                  IN  /\ \A k \in 1..Len(sub) : Depth(sub, k) >= 0
                      /\ \A j \in 1..Len(sub) :
                            IsEnd(sub[j]) =>
                                /\ MatchOf(sub, j) # 0
                                /\ OwnerAt(sub[MatchOf(sub, j)].off) = OwnerAt(sub[j].off)

\* C8: the timestamps of consecutive events of a thread never decrease.
C8_Monotone ==
    \A t \in Threads :
       LET ev == Events(t)
       IN  \A i \in 1..(Len(ev) - 1) : F64Leq(ev[i].when, ev[i + 1].when)

\* A thread's stream holds a synthetic pair between two of its own events,
\* and the timer moved between the event before it and the one after.
C8_Witness ==
    \E t \in Threads :
       LET ev == Events(t)
       IN  \E i \in 2..(Len(ev) - 2) :
              /\ IsBegin(ev[i]) /\ ev[i].name = Str_spall_flush
              /\ IsEnd(ev[i + 1])
              /\ ev[i - 1].when # ev[i + 2].when
              /\ ev[i].when # ev[i + 1].when

\* The Begin events of the scopes a thread acquired: all but the synthetic ones.
UserBegins(ev) == SelectSeq(ev, LAMBDA e : IsBegin(e) /\ e.name # Str_spall_flush)

RECURSIVE Flatten(_)
Flatten(pieces) == IF pieces = << >> THEN << >> ELSE Head(pieces) \o Flatten(Tail(pieces))

Clamp(bytes) == SubSeq(bytes, 1, Min(Len(bytes), MaxU8))

\* C9: a thread's stream is made of whole records only, and its k-th scope
\* Begin carries the first min(L, 255) bytes of the k-th name it passed.
C9_NameTruncated ==
    \A t \in Threads :
       LET ev == Events(t)
           ub == UserBegins(ev)
       IN  /\ Decodable(ev)
           /\ Len(ub) = Len(calls[t])
           /\ \A k \in 1..Len(ub) : ub[k].name = Clamp(calls[t][k].name)

\* A name longer than 255 bytes was recorded, and another scope after it.
C9_Witness ==
    \E t \in Threads :
       LET ub == UserBegins(Events(t))
       IN  /\ Len(ub) >= 2
           /\ Len(calls[t][1].name) > MaxU8
           /\ Len(ub[1].name) = MaxU8

\* C10: the args_len byte of the k-th scope Begin of a thread counts the
\* argument bytes that follow its name, and these are the first
\* min(rendered length, 255) bytes of the rendering of the k-th call.
C10_ArgsLenPatched ==
    \A t \in Threads :
       LET ev == Events(t)
           ub == UserBegins(ev)
           b  == Emitted(t)
       IN  /\ Decodable(ev)
           /\ Len(ub) = Len(calls[t])
           /\ \A k \in 1..Len(ub) :
                 /\ b[ub[k].off + OffsetofArgsLen + 1] = Len(Clamp(Flatten(calls[t][k].args)))
                 /\ ub[k].args = Clamp(Flatten(calls[t][k].args))

\* A rendering longer than 255 bytes was recorded by a call whose reserve
\* flushed a buffer that already held a scope.
C10_Witness ==
    \E t \in Threads :
       LET ub == UserBegins(Events(t))
       IN  /\ Len(ub) >= 2
           /\ Len(Flatten(calls[t][2].args)) > MaxU8
           /\ Len(ub[2].args) = MaxU8
           /\ handed[t] # << >>
           /\ ub[2].off >= Len(handed[t])

IsFailed(tls) == tls = Tls(None)

\* The writes of thread t, as indices into segs.
SegsOf(t) == { i \in 1..Len(segs) : segs[i].owner = t }

\* A step in which thread t acquires or releases a scope, or ends.
StepOf(t) == guards'[t] # guards[t] \/ ops'[t] # ops[t] \/ alive'[t] # alive[t]

\* C11: a first attempt made while no context is published fails; a failed
\* recorder never becomes live, and no step of its thread changes a file or
\* hands bytes to a write; it has recorded nothing.
C11_FailedStep ==
    \A t \in Threads :
       /\ (THIS[t] = TlsUninit /\ THIS'[t] # THIS[t] /\ ~is_some(GLOBAL_STATE))
             => IsFailed(THIS'[t])
       /\ IsFailed(THIS[t]) =>
             /\ IsFailed(THIS'[t])
             /\ StepOf(t) => /\ fs' = fs
                             /\ handed' = handed
                             /\ segs' = segs
                             /\ calls' = calls

C11_FailedState ==
    \A t \in Threads :
       IsFailed(THIS[t]) => handed[t] = << >> /\ calls[t] = << >> /\ SegsOf(t) = { }

C11_FailedIsAbsorbing == []C11_FailedState /\ [][C11_FailedStep]_vars

\* A thread found no context at its first attempt (no fault was injected and
\* nothing was printed), init has succeeded since, and the thread has
\* acquired and released two scopes in all.
C11_Witness ==
    \E t \in Threads :
       /\ IsFailed(THIS[t])
       /\ is_some(GLOBAL_STATE)
       /\ faults = 0 /\ stderr = << >>
       /\ ops[t] = 2 /\ guards[t] = 0

\* C12: once a thread with a live recorder has ended, all its writes having
\* been accepted in full, the Begin of every scope it acquired and the End of
\* every guard it released are among the bytes the file holds at its writes.
C12_ExitFlushesResidue ==
    \A t \in Threads :
       (THIS[t] = TlsDestroyed /\ ~lossy[t]) =>
          LET ev == Events(t)
          IN  /\ Len(UserBegins(ev)) = Len(calls[t])
              /\ Balanced(ev)
              /\ Written(t, Len(segs)) = Emitted(t)

\* A thread has ended after two scopes and two writes, the last being the
\* one of its drop.
C12_Witness ==
    \E t \in Threads :
       /\ THIS[t] = TlsDestroyed /\ ~lossy[t]
       /\ Len(calls[t]) = 2
       /\ Cardinality(SegsOf(t)) = 2

\* The bytes of the synthetic pair a flush records.
FlushPairSize == SizeofBeginEvent + Len(Str_spall_flush) + SizeofEndEvent

\* What the step of thread t asks of reserve(): the size of the End when a
\* guard is released, else the size its newest call reserves.
ReservedBy(t) ==
    IF guards'[t] < guards[t] THEN DropReserve
    ELSE IF Last(calls'[t]).args = << >> THEN ScopeReserve(Last(calls'[t]).name)
    ELSE ScopeArgsReserve(Last(calls'[t]).name)

\* The record of the step of thread t is e.
IsRecordOf(t, e) ==
    IF guards'[t] < guards[t] THEN IsEnd(e)
    ELSE /\ IsBegin(e)
         /\ e.name = Clamp(Last(calls'[t]).name)
         /\ e.args = Clamp(Flatten(Last(calls'[t]).args))

\* C13: a step of a live recorder whose reserve() finds too little room hands
\* exactly the old content of the buffer to one write, and leaves a buffer
\* holding the synthetic spall/flush Begin and End and then the whole record
\* of the step; a step that finds room writes nothing and appends its record.
C13_ReserveStep ==
    \A t \in Threads :
       (IsLive(THIS[t]) /\ IsLive(THIS'[t]) /\ StepOf(t)) =>
          LET ev == ParseFrom(UsedBuffer(t)', 0)
          IN  IF MustFlush(Unwrap(THIS[t].val), ReservedBy(t))
              THEN /\ Len(segs') = Len(segs) + 1
                   /\ Last(segs').owner = t
                   /\ handed'[t] = handed[t] \o UsedBuffer(t)
                   /\ Len(ev) = 3
                   /\ IsBegin(ev[1]) /\ ev[1].name = Str_spall_flush /\ ev[1].args = << >>
                   /\ IsEnd(ev[2])
                   /\ ev[3].off = FlushPairSize
                   /\ IsRecordOf(t, ev[3])
              ELSE /\ segs' = segs
                   /\ handed' = handed
                   /\ IsPrefix(UsedBuffer(t), UsedBuffer(t)')
                   /\ IsRecordOf(t, Last(ev))

C13_FlushBeforeRecord == [][C13_ReserveStep]_vars

\* Buffers left by a flush that the End of a guard caused, and by one that
\* the Begin of a scope with arguments caused.
C13_Witness ==
    /\ \E t \in Threads :
          /\ IsLive(THIS[t]) /\ handed[t] # << >>
          /\ Len(UsedBuffer(t)) = FlushPairSize + SizeofEndEvent
    /\ \E t \in Threads :
          /\ IsLive(THIS[t]) /\ handed[t] # << >>
          /\ LET ev == ParseFrom(UsedBuffer(t), 0)
             IN  Len(ev) = 3 /\ IsBegin(ev[3]) /\ Len(ev[3].args) = MaxU8

\* The bytes thread t handed to its writes before the write segs[i].
RECURSIVE HandedBefore(_, _)
HandedBefore(t, i) ==
    IF i <= 1 THEN 0
    ELSE HandedBefore(t, i - 1) + (IF segs[i - 1].owner = t THEN segs[i - 1].asked ELSE 0)

\* The slice handed to the write segs[i].
SliceOf(i) ==
    LET g == segs[i]
    IN  SubSeq(handed[g.owner], HandedBefore(g.owner, i) + 1,
               HandedBefore(g.owner, i) + g.asked)

\* C14: a flush whose write returns an error leaves every file as it was,
\* and when reserve() made it the recorder stays live with the buffer started
\* over: the synthetic pair, the record of the step, and the rest free.  What
\* the file holds at any write is the accepted part of the slice handed to
\* it, so the events buffered after a failed write are written by the later
\* ones.
C14_FailedWriteStep ==
    \A t \in Threads :
       (Len(segs') = Len(segs) + 1 /\ Last(segs').res = WriteErr
           /\ Last(segs').owner = t) =>
          /\ fs' = fs
          /\ handed'[t] = handed[t] \o UsedBuffer(t)
          /\ alive'[t] =>
                /\ IsLive(THIS'[t])
                /\ LET s  == Unwrap(THIS'[t].val)
                       ev == ParseFrom(UsedBuffer(t)', 0)
                   IN  /\ Len(ev) = 3
                       /\ s.write_ptr = FlushPairSize + ev[3].size
                       /\ s.write_rem = s.buffer_size - s.write_ptr

C14_WrittenState ==
    \A i \in 1..Len(segs) : FileBytes(segs[i]) = SubSeq(SliceOf(i), 1, segs[i].len)

C14_FailedWriteDropsBuffer == []C14_WrittenState /\ [][C14_FailedWriteStep]_vars

\* A write of a thread failed, and a later write of it, of the events it
\* buffered since, was accepted in full.
C14_Witness ==
    \E i, j \in 1..Len(segs) :
       /\ i < j /\ segs[i].owner = segs[j].owner
       /\ segs[i].res = WriteErr /\ segs[i].asked > 0
       /\ segs[j].res = segs[j].asked /\ segs[j].asked > FlushPairSize

WriteDiagnostics == Cardinality({ i \in 1..Len(stderr) : stderr[i] = "write failed" })

\* C15: as many write diagnostics have been printed as there were writes of
\* recorders that failed or accepted fewer bytes than they were handed; none
\* when the context is silent.
C15_DiagnosticPerLostWrite ==
    is_some(GLOBAL_STATE) =>
        WriteDiagnostics =
            IF Unwrap(GLOBAL_STATE).silent THEN 0
            ELSE Cardinality({ i \in 1..Len(segs) : segs[i].res # segs[i].asked })

\* The same, counting only the writes that returned an error.
C15_DiagnosticPerFailedWrite ==
    is_some(GLOBAL_STATE) =>
        WriteDiagnostics =
            IF Unwrap(GLOBAL_STATE).silent THEN 0
            ELSE Cardinality({ i \in 1..Len(segs) : segs[i].res = WriteErr })

LiveThreads == { t \in Threads : IsLive(THIS[t]) }

\* C16: the buffers allocated and the file handles open are those of the
\* threads whose recorder is live, and as many.
C16_ResourcesOfLive ==
    /\ Cardinality(allocated) = Cardinality(LiveThreads)
    /\ allocated = LiveThreads
    /\ opened = LiveThreads

\* The file handles alone.
C16_HandlesOfLive == opened = LiveThreads

\* reserve(n) leaves write_rem >= n on every live recorder as it stands, for
\* every n up to `most`, whether the write of a flush succeeds or fails.
ReserveLeavesRoom(most) ==
    \A t \in Threads :
       IsLive(THIS[t]) =>
          LET s == Unwrap(THIS[t].val)
          IN  \A res \in { s.write_ptr, WriteErr } :
                 LET flushed == flush(s, fs[s.file.path], clock[t], clock[t], res).s
                 IN  \A n \in 0..most : reserve(s, n, flushed).write_rem >= n

PairsIn(b) ==
    LET ev == ParseFrom(b, 0)
    IN  Cardinality({ i \in 1..(Len(ev) - 1) :
                         /\ IsBegin(ev[i]) /\ ev[i].name = Str_spall_flush
                         /\ IsEnd(ev[i + 1]) })

\* The pairs the file holds at the first n writes that are t's.
RECURSIVE PairsWritten(_, _)
PairsWritten(t, n) ==
    IF n = 0 THEN 0
    ELSE PairsWritten(t, n - 1)
           + (IF segs[n].owner = t THEN PairsIn(FileBytes(segs[n])) ELSE 0)

\* No step makes more than one write, and the end of a live recorder makes
\* exactly one.
C18_OneWriteStep ==
    /\ Len(segs') <= Len(segs) + 1
    /\ \A t \in Threads :
          (IsLive(THIS[t]) /\ THIS'[t] = TlsDestroyed) =>
              Len(segs') = Len(segs) + 1 /\ Last(segs').owner = t

C18_PairsInFileState ==
    \A t \in Threads :
       SegsOf(t) # { } =>
          /\ PairsIn(handed[t]) = Cardinality(SegsOf(t)) - 1
          /\ PairsWritten(t, Len(segs)) <= Cardinality(SegsOf(t)) - 1
          /\ ~lossy[t] => PairsWritten(t, Len(segs)) = Cardinality(SegsOf(t)) - 1

C19_CursorWithinBuffer ==
    \A t \in Threads :
       IsLive(THIS[t]) =>
          LET s == Unwrap(THIS[t].val)
          IN  /\ s.buffer_size = BufferSize
              /\ s.write_ptr + s.write_rem = s.buffer_size
              /\ s.write_ptr >= 0 /\ s.write_ptr <= s.buffer_size
              /\ s.write_rem >= 0
              /\ Len(s.buffer) <= s.buffer_size

\* A recorder that has flushed holds two open scopes and has two bytes left.
C19_Witness ==
    \E t \in Threads :
       /\ IsLive(THIS[t]) /\ SegsOf(t) # { }
       /\ guards[t] = 2
       /\ Unwrap(THIS[t].val).write_rem = 2

\* The bytes b are a whole number of complete records.
WholeRecords(b) == Decodable(ParseFrom(b, 0))

\* C20: every slice a recorder hands to a write is at most buffer_size bytes
\* and a whole number of complete records; when the header and every write
\* were accepted in full, the file after the header is complete records too,
\* however the writes of the threads interleave.
C20_WholeRecordWrites ==
    /\ \A i \in 1..Len(segs) :
          /\ segs[i].asked <= BufferSize
          /\ WholeRecords(SliceOf(i))
    /\ (is_some(GLOBAL_STATE) /\ HeaderWritten /\ \A t \in Threads : ~lossy[t]) =>
          Decodable(FileEvents)

\* Three complete writes are in the file, the second by another thread than
\* the first and the third, and one of them carried the largest record.
C20_Witness ==
    /\ is_some(GLOBAL_STATE) /\ HeaderWritten
    /\ \A t \in Threads : ~lossy[t]
    /\ Len(segs) >= 3
    /\ segs[1].owner # segs[2].owner /\ segs[3].owner = segs[1].owner
    /\ \A i \in 1..3 : segs[i].len > 0
    /\ \E i \in 1..3 : segs[i].asked >= SizeofBeginEvent + 2 * MaxU8
    /\ Len(FileEvents) >= 6

====
